---- MODULE Spec2Model ----
(***************************************************************************)
(* The neon_branch resource of terraform-provider-neon                     *)
(* (internal/provider/resource_branch.go): the schema, the State Mapper    *)
(* updateStateBranch and the five handlers Create, Read, Update, Delete    *)
(* and Import, run against a remote that keeps the project's branches.     *)
(*                                                                         *)
(* Go values are represented as follows.                                   *)
(*   string      a TLA+ string; the zero value is "".                      *)
(*   int, int64  a TLA+ integer where the value fits (the sizes); a count  *)
(*               of seconds is the record [d, s] that stands for           *)
(*               d * 86400 + s with 0 <= s < 86400, because the Unix time  *)
(*               of the zero time.Time, -62135596800, is outside the       *)
(*               integers TLC computes with.                               *)
(*   time.Time   [d, s, ns]: days since 1970-01-01, second of the day and  *)
(*               nanosecond, in UTC.                                       *)
(*   *time.Time  [set, t]: set = FALSE is the nil pointer.                 *)
(*   error       a string, "" for nil.                                     *)
(***************************************************************************)
EXTENDS Integers, Sequences, FiniteSets, TLC

VARIABLES
    d,       \* the *schema.ResourceData the framework keeps for the resource
    remote,  \* the remote project: live branch id -> neon.Branch
    issued,  \* how many branch ids the remote has assigned so far
    owned,   \* the id of the branch created or imported for the resource and
             \* not deleted since, "" when there is none
    op,      \* the step taken last
    input,   \* what the framework passed to the last handler
    entry,   \* the ResourceData as the framework handed it to that handler
    after,   \* the ResourceData as that handler left it
    calls,   \* the remote round trips that handler made, in order
    ret,     \* what that handler returned
    fresh    \* Create's result, while nothing but Read has happened since

vars == <<d, remote, issued, owned, op, input, entry, after, calls, ret, fresh>>

\* The remote refuses to provision more than this many branches.
MaxBranches == 2

-----------------------------------------------------------------------------
(* Seconds and times *)

Secs(days, sod) == [d |-> days, s |-> sod]

SecsZero == Secs(0, 0)

\* v < 0 and v > 0 for a count of seconds v = v.d * 86400 + v.s.
SecsNegative(v) == v.d < 0

SecsPositive(v) == v.d > 0 \/ (v.d = 0 /\ v.s > 0)

\* time.Time{}: January 1, year 1, 00:00:00 UTC, 719162 days before 1970.
ZeroTime == [d |-> -719162, s |-> 0, ns |-> 0]

\* t.Unix(): the seconds since 1970, the nanoseconds dropped.
Unix(t) == Secs(t.d, t.s)

\* time.Unix(sec, 0)
TimeUnix(sec) == [d |-> sec.d, s |-> sec.s, ns |-> 0]

Pad2(n) == IF n < 10 THEN "0" \o ToString(n) ELSE ToString(n)

Pad4(n) ==
    IF n < 10 THEN "000" \o ToString(n)
    ELSE IF n < 100 THEN "00" \o ToString(n)
    ELSE IF n < 1000 THEN "0" \o ToString(n)
    ELSE ToString(n)

\* The proleptic Gregorian date of a day number (days since 1970-01-01), by
\* 400-year eras that start on March 1: doe is the day of the era, yoe the
\* year of the era, doy the day of the year counted from March 1 and mp the
\* month counted from March.
DateOfMonth(yr, mp, doy) ==
    [year  |-> yr + (IF mp >= 10 THEN 1 ELSE 0),
     month |-> IF mp < 10 THEN mp + 3 ELSE mp - 9,
     day   |-> doy - ((153 * mp + 2) \div 5) + 1]

DateOfYearDay(era, yoe, doy) ==
    DateOfMonth(yoe + era * 400, (5 * doy + 2) \div 153, doy)

DateOfEraYear(era, doe, yoe) ==
    DateOfYearDay(era, yoe, doe - (365 * yoe + (yoe \div 4) - (yoe \div 100)))

DateOfEraDay(era, doe) ==
    DateOfEraYear(era, doe,
        (doe - (doe \div 1460) + (doe \div 36524) - (doe \div 146096)) \div 365)

DateOfShifted(z, era) == DateOfEraDay(era, z - era * 146097)

CivilFromDays(days) == DateOfShifted(days + 719468, (days + 719468) \div 146097)

FormatDate(c) == Pad4(c.year) \o "-" \o Pad2(c.month) \o "-" \o Pad2(c.day)

FormatClock(sod) ==
    Pad2(sod \div 3600) \o ":" \o Pad2((sod % 3600) \div 60) \o ":" \o Pad2(sod % 60)

\* t.Format(time.RFC3339) of a UTC time: "2006-01-02T15:04:05Z", no fraction.
FormatRFC3339(t) == FormatDate(CivilFromDays(t.d)) \o "T" \o FormatClock(t.s) \o "Z"

-----------------------------------------------------------------------------
(* neon.Branch and the local attribute set *)

\* neon.Branch{}
ZeroBranch ==
    [ID |-> "", ProjectID |-> "", Name |-> "", ParentID |-> "", ParentLsn |-> "",
     ParentTimestamp |-> ZeroTime, LogicalSize |-> 0, PhysicalSize |-> 0,
     CurrentState |-> "", PendingState |-> "",
     CreatedAt |-> ZeroTime, UpdatedAt |-> ZeroTime]

\* The attributes of the schema that the State Mapper writes.
ComputedFields ==
    <<"name", "parent_id", "parent_lsn", "parent_timestamp", "logical_size",
      "physical_size_size", "current_state", "pending_state", "created_at",
      "updated_at">>

\* A ResourceData with no id and every attribute at its zero value.
ZeroData ==
    [id |-> "", project_id |-> "", name |-> "", parent_id |-> "",
     parent_lsn |-> "", parent_timestamp |-> SecsZero, logical_size |-> 0,
     physical_size_size |-> 0, current_state |-> "", pending_state |-> "",
     created_at |-> "", updated_at |-> ""]

\* The value updateStateBranch hands to d.Set for attribute f of entity v.
MapperValue(v, f) ==
    CASE f = "name"               -> v.Name
      [] f = "parent_id"          -> v.ParentID
      [] f = "parent_lsn"         -> v.ParentLsn
      [] f = "parent_timestamp"   -> Unix(v.ParentTimestamp)
      [] f = "logical_size"       -> v.LogicalSize
      [] f = "physical_size_size" -> v.PhysicalSize
      [] f = "current_state"      -> v.CurrentState
      [] f = "pending_state"      -> v.PendingState
      [] f = "created_at"         -> FormatRFC3339(v.CreatedAt)
      [] f = "updated_at"         -> FormatRFC3339(v.CreatedAt)

\* No d.Set fails.
NoFailure == 0

\* failAt = k > 0: the k-th d.Set of the mapper returns an error.  The handlers
\* are run with a failure of the first d.Set (nothing written), of the fourth
\* (the strings written, the numbers not) and of the last.
FailPoints == {1, 4, Len(ComputedFields)}

SetFailures == {NoFailure} \cup FailPoints

\* What the environment decides for one handler call: the remote call fails,
\* or it succeeds and the mapper's d.Set calls succeed or fail at the k-th.
Outcomes ==
    {[fault |-> TRUE, failAt |-> NoFailure]}
    \cup {[fault |-> FALSE, failAt |-> k] : k \in SetFailures}

SetError(f) == "set " \o f \o ": invalid value"

\* A mapper that undoes what it wrote when a d.Set fails.
updateStateBranch_rollsBack(dd, v, failAt) ==
    [d   |-> IF failAt = NoFailure
             THEN [f \in DOMAIN dd |->
                     IF \E i \in 1 .. Len(ComputedFields) : ComputedFields[i] = f
                     THEN MapperValue(v, f) ELSE dd[f]]
             ELSE dd,
     err |-> IF failAt = NoFailure THEN "" ELSE SetError(ComputedFields[failAt])]

\* updateStateBranch(d, v): the d.Set calls in order, stopping at the first one
\* that fails; what was set before it stays set.
updateStateBranch(dd, v, failAt) ==
    LET n == IF failAt = NoFailure THEN Len(ComputedFields) ELSE failAt - 1
        written == {ComputedFields[i] : i \in 1 .. n}
    IN  [d   |-> [f \in DOMAIN dd |->
                    IF f \in written THEN MapperValue(v, f) ELSE dd[f]],
         err |-> IF failAt = NoFailure THEN "" ELSE SetError(ComputedFields[failAt])]

\* A SetId that is lost.
SetId_dropped(dd, id) == dd

\* d.SetId(id)
SetId(dd, id) == [dd EXCEPT !.id = id]

\* diag.FromErr(err): no diagnostic for nil, else one error diagnostic whose
\* summary is err.Error().
FromErr(err) ==
    IF err = "" THEN <<>> ELSE <<[Severity |-> "Error", Summary |-> err]>>

\* diags.HasError()
HasError(diags) == \E i \in 1 .. Len(diags) : diags[i].Severity = "Error"

-----------------------------------------------------------------------------
(* The schema: what the framework checks before it calls a handler *)

\* A configuration: the value of each attribute and the set of optional
\* attributes the configuration gives a value (the others are null).
ProjectIds == {"p1"}

NameInputs == {"", "dev"}

ParentIdInputs == {""}

LsnInputs == {"", "0/1708A40"}

\* -1, 0 and 1700000000 seconds.
TimestampInputs == {Secs(-1, 86399), SecsZero, Secs(19675, 80000)}

Configs ==
    {[project_id |-> p, name |-> n, parent_id |-> pa, parent_lsn |-> l,
      parent_timestamp |-> t, given |-> g] :
        p \in ProjectIds, n \in NameInputs, pa \in ParentIdInputs,
        l \in LsnInputs, t \in TimestampInputs,
        g \in SUBSET {"parent_lsn", "parent_timestamp"}}

\* A null attribute reads as the zero value of its type; a parent_lsn that is
\* given is a non-empty LSN.
WellFormed(cfg) ==
    /\ "parent_lsn" \in cfg.given <=> cfg.parent_lsn # ""
    /\ "parent_timestamp" \notin cfg.given => cfg.parent_timestamp = SecsZero

\* A schema that declares no conflict.
ConflictsWith_none(attr) == {}

\* Schema.ConflictsWith of each attribute.
ConflictsWith(attr) ==
    CASE attr = "parent_lsn"       -> {"parent_timestamp"}
      [] attr = "parent_timestamp" -> {"parent_lsn"}
      [] OTHER                     -> {}

\* A validation that rejects 0 as well.
intValidationNotNegative_rejectsZero(v, s) ==
    [warn |-> <<>>,
     errs |-> IF ~SecsPositive(v) THEN <<s \o " must be not negative">> ELSE <<>>]

\* intValidationNotNegative(v, s)
intValidationNotNegative(v, s) ==
    [warn |-> <<>>,
     errs |-> IF SecsNegative(v) THEN <<s \o " must be not negative">> ELSE <<>>]

\* The errors of the configuration's attributes, in the order of their names:
\* an attribute that is given conflicts with each given attribute of its
\* ConflictsWith, and its ValidateFunc runs on its value.
ConflictErrors(cfg, attr) ==
    IF attr \in cfg.given /\ ConflictsWith(attr) \cap cfg.given # {}
    THEN <<"\"" \o attr \o "\": conflicts with "
            \o (CHOOSE c \in ConflictsWith(attr) \cap cfg.given : TRUE)>>
    ELSE <<>>

schemaValidate(cfg) ==
    ConflictErrors(cfg, "parent_lsn")
    \o ConflictErrors(cfg, "parent_timestamp")
    \o (IF "parent_timestamp" \in cfg.given
        THEN intValidationNotNegative(cfg.parent_timestamp, "parent_timestamp").errs
        ELSE <<>>)

ConfigDiags(errs) ==
    [i \in 1 .. Len(errs) |-> [Severity |-> "Error", Summary |-> errs[i]]]

\* The ResourceData Create receives: no id, the configured attributes, the
\* computed ones at their zero value.
NewData(cfg) ==
    [ZeroData EXCEPT !.project_id = cfg.project_id, !.name = cfg.name,
                     !.parent_id = cfg.parent_id, !.parent_lsn = cfg.parent_lsn,
                     !.parent_timestamp = cfg.parent_timestamp]

\* d.GetOk(key): the value, and whether it differs from the zero value.
GetOk(dd, key) == [v |-> dd[key], ok |-> dd[key] # ZeroData[key]]

-----------------------------------------------------------------------------
(* The remote, behind neon.Client *)

BranchId(n) == "br-" \o ToString(n)

\* The project's primary branch exists before the resource does.
PrimaryBranch == "br-main"

\* 2023-11-14T22:13:20.5Z and 2023-11-15T01:01:01.25Z
CreateTime == [d |-> 19675, s |-> 80000, ns |-> 500000000]

UpdateTime == [d |-> 19676, s |-> 3661, ns |-> 250000000]

ErrUnavailable == "remote: service unavailable"

ErrNotFound == "remote: branch not found"

ErrLimit == "remote: branch limit reached"

NoBody == [Empty |-> TRUE]

NilTime == [set |-> FALSE, t |-> ZeroTime]

Call(method, project, id, body, err, branch) ==
    [method |-> method, project_id |-> project, branch_id |-> id, body |-> body,
     err |-> err, branch |-> branch]

\* client.CreateProjectBranch(projectID, &cfg)
CreateProjectBranch(rem, iss, project, req, fault) ==
    LET id == BranchId(iss + 1)
        b  == [ID |-> id, ProjectID |-> project,
               Name |-> IF req.Name = "" THEN id ELSE req.Name,
               ParentID |-> IF req.ParentID = "" THEN PrimaryBranch ELSE req.ParentID,
               ParentLsn |-> req.ParentLsn,
               ParentTimestamp |-> IF req.ParentTimestamp.set
                                   THEN req.ParentTimestamp.t ELSE ZeroTime,
               LogicalSize |-> 0, PhysicalSize |-> 0,
               CurrentState |-> "init", PendingState |-> "ready",
               CreatedAt |-> CreateTime, UpdatedAt |-> CreateTime]
        err == IF fault THEN ErrUnavailable
               ELSE IF iss >= MaxBranches THEN ErrLimit ELSE ""
    IN  IF err # ""
        THEN [remote |-> rem, issued |-> iss, err |-> err, branch |-> ZeroBranch]
        ELSE [remote |-> [i \in DOMAIN rem \cup {id} |->
                            IF i = id THEN b ELSE rem[i]],
              issued |-> iss + 1, err |-> "", branch |-> b]

\* client.GetProjectBranch(projectID, branchID)
GetProjectBranch(rem, project, id, fault) ==
    LET err == IF fault THEN ErrUnavailable
               ELSE IF id \notin DOMAIN rem THEN ErrNotFound ELSE ""
    IN  [err |-> err, branch |-> IF err # "" THEN ZeroBranch ELSE rem[id]]

\* client.UpdateProjectBranch(projectID, branchID, cfg)
UpdateProjectBranch(rem, project, id, req, fault) ==
    LET err == IF fault THEN ErrUnavailable
               ELSE IF id \notin DOMAIN rem THEN ErrNotFound ELSE ""
        b   == [rem[id] EXCEPT !.Name = req.Name, !.UpdatedAt = UpdateTime]
    IN  IF err # ""
        THEN [remote |-> rem, err |-> err, branch |-> ZeroBranch]
        ELSE [remote |-> [rem EXCEPT ![id] = b], err |-> "", branch |-> b]

\* client.DeleteProjectBranch(projectID, branchID)
DeleteProjectBranch(rem, project, id, fault) ==
    LET err == IF fault THEN ErrUnavailable
               ELSE IF id \notin DOMAIN rem THEN ErrNotFound ELSE ""
    IN  IF err # ""
        THEN [remote |-> rem, err |-> err]
        ELSE [remote |-> [i \in DOMAIN rem \ {id} |-> rem[i]], err |-> ""]

-----------------------------------------------------------------------------
(* The handlers.  Each takes the ResourceData dd it is handed, the remote and  *)
(* what the environment decides (fault: the remote call fails; failAt: the   *)
(* d.Set that fails), and yields the ResourceData it leaves, the remote, the *)
(* round trips it made and the diagnostics it returns.                       *)

\* A payload that always carries a point in time, that of 0 seconds included.
BranchCreateRequest_always(dd) ==
    [ParentID |-> dd.parent_id, Name |-> dd.name, ParentLsn |-> dd.parent_lsn,
     ParentTimestamp |-> [set |-> TRUE, t |-> TimeUnix(dd.parent_timestamp)]]

\* The payload resourceBranchCreate builds from d.
BranchCreateRequest(dd) ==
    LET ts == GetOk(dd, "parent_timestamp")
    IN  [ParentID |-> dd.parent_id, Name |-> dd.name, ParentLsn |-> dd.parent_lsn,
         ParentTimestamp |-> IF ts.ok /\ SecsPositive(ts.v)
                             THEN [set |-> TRUE, t |-> TimeUnix(ts.v)]
                             ELSE NilTime]

\* A Create that wraps the remote error in a message of its own.
resourceBranchCreate_wraps(dd, rem, iss, fault, failAt) ==
    LET cfg == BranchCreateRequest(dd)
        r   == CreateProjectBranch(rem, iss, dd.project_id, cfg, fault)
        c   == Call("CreateProjectBranch", dd.project_id, "", cfg, r.err, r.branch)
        m   == updateStateBranch(SetId(dd, r.branch.ID), r.branch, failAt)
    IN  IF r.err # ""
        THEN [d |-> dd, remote |-> r.remote, issued |-> r.issued,
              calls |-> <<c>>, diags |-> FromErr("create branch: " \o r.err)]
        ELSE [d |-> m.d, remote |-> r.remote, issued |-> r.issued,
              calls |-> <<c>>, diags |-> FromErr(m.err)]

\* A Create that forgets to record the id the remote returned.
resourceBranchCreate_noSetId(dd, rem, iss, fault, failAt) ==
    LET cfg == BranchCreateRequest(dd)
        r   == CreateProjectBranch(rem, iss, dd.project_id, cfg, fault)
        c   == Call("CreateProjectBranch", dd.project_id, "", cfg, r.err, r.branch)
        m   == updateStateBranch(dd, r.branch, failAt)
    IN  IF r.err # ""
        THEN [d |-> dd, remote |-> r.remote, issued |-> r.issued,
              calls |-> <<c>>, diags |-> FromErr(r.err)]
        ELSE [d |-> m.d, remote |-> r.remote, issued |-> r.issued,
              calls |-> <<c>>, diags |-> FromErr(m.err)]

\* A Create that records the id only once the mapping has succeeded.
resourceBranchCreate_setsIdLast(dd, rem, iss, fault, failAt) ==
    LET cfg == BranchCreateRequest(dd)
        r   == CreateProjectBranch(rem, iss, dd.project_id, cfg, fault)
        c   == Call("CreateProjectBranch", dd.project_id, "", cfg, r.err, r.branch)
        m   == updateStateBranch(dd, r.branch, failAt)
    IN  IF r.err # ""
        THEN [d |-> dd, remote |-> r.remote, issued |-> r.issued,
              calls |-> <<c>>, diags |-> FromErr(r.err)]
        ELSE [d |-> IF m.err = "" THEN SetId(m.d, r.branch.ID) ELSE m.d,
              remote |-> r.remote, issued |-> r.issued,
              calls |-> <<c>>, diags |-> FromErr(m.err)]

resourceBranchCreate(dd, rem, iss, fault, failAt) ==
    LET cfg == BranchCreateRequest(dd)
        r   == CreateProjectBranch(rem, iss, dd.project_id, cfg, fault)
        c   == Call("CreateProjectBranch", dd.project_id, "", cfg, r.err, r.branch)
        m   == updateStateBranch(SetId(dd, r.branch.ID), r.branch, failAt)
    IN  IF r.err # ""
        THEN [d |-> dd, remote |-> r.remote, issued |-> r.issued,
              calls |-> <<c>>, diags |-> FromErr(r.err)]
        ELSE [d |-> m.d, remote |-> r.remote, issued |-> r.issued,
              calls |-> <<c>>, diags |-> FromErr(m.err)]

\* A Read that fetches the branch named by parent_id instead of the id.
resourceBranchRead_readsParent(dd, rem, fault, failAt) ==
    LET r == GetProjectBranch(rem, dd.project_id, dd.parent_id, fault)
        c == Call("GetProjectBranch", dd.project_id, dd.parent_id, NoBody, r.err, r.branch)
        m == updateStateBranch(dd, r.branch, failAt)
    IN  IF r.err # ""
        THEN [d |-> dd, remote |-> rem, calls |-> <<c>>, diags |-> FromErr(r.err)]
        ELSE [d |-> m.d, remote |-> rem, calls |-> <<c>>, diags |-> FromErr(m.err)]

\* A Read that drops the id when the remote get fails.
resourceBranchRead_clearsIdOnError(dd, rem, fault, failAt) ==
    LET r == GetProjectBranch(rem, dd.project_id, dd.id, fault)
        c == Call("GetProjectBranch", dd.project_id, dd.id, NoBody, r.err, r.branch)
        m == updateStateBranch(dd, r.branch, failAt)
    IN  IF r.err # ""
        THEN [d |-> SetId(dd, ""), remote |-> rem, calls |-> <<c>>,
              diags |-> FromErr(r.err)]
        ELSE [d |-> m.d, remote |-> rem, calls |-> <<c>>, diags |-> FromErr(m.err)]

\* A Read that takes a branch the remote does not find as gone and drops the id.
resourceBranchRead_dropsOnNotFound(dd, rem, fault, failAt) ==
    LET r == GetProjectBranch(rem, dd.project_id, dd.id, fault)
        c == Call("GetProjectBranch", dd.project_id, dd.id, NoBody, r.err, r.branch)
        m == updateStateBranch(dd, r.branch, failAt)
    IN  IF r.err = ErrNotFound
        THEN [d |-> SetId(dd, ""), remote |-> rem, calls |-> <<c>>, diags |-> <<>>]
        ELSE IF r.err # ""
        THEN [d |-> dd, remote |-> rem, calls |-> <<c>>, diags |-> FromErr(r.err)]
        ELSE [d |-> m.d, remote |-> rem, calls |-> <<c>>, diags |-> FromErr(m.err)]

resourceBranchRead(dd, rem, fault, failAt) ==
    LET r == GetProjectBranch(rem, dd.project_id, dd.id, fault)
        c == Call("GetProjectBranch", dd.project_id, dd.id, NoBody, r.err, r.branch)
        m == updateStateBranch(dd, r.branch, failAt)
    IN  IF r.err # ""
        THEN [d |-> dd, remote |-> rem, calls |-> <<c>>, diags |-> FromErr(r.err)]
        ELSE [d |-> m.d, remote |-> rem, calls |-> <<c>>, diags |-> FromErr(m.err)]

\* An Update without the short-circuit on an empty name.
resourceBranchUpdate_alwaysRenames(dd, rem, fault, failAt) ==
    LET v   == GetOk(dd, "name")
        cfg == [Name |-> v.v]
        r   == UpdateProjectBranch(rem, dd.project_id, dd.id, cfg, fault)
        c   == Call("UpdateProjectBranch", dd.project_id, dd.id, cfg, r.err, r.branch)
        m   == updateStateBranch(dd, r.branch, failAt)
    IN  IF r.err # ""
        THEN [d |-> dd, remote |-> r.remote, calls |-> <<c>>, diags |-> FromErr(r.err)]
        ELSE [d |-> m.d, remote |-> r.remote, calls |-> <<c>>, diags |-> FromErr(m.err)]

\* An Update that keeps the ResourceData it was handed after the rename.
resourceBranchUpdate_noRemap(dd, rem, fault, failAt) ==
    LET v   == GetOk(dd, "name")
        cfg == [Name |-> v.v]
        r   == UpdateProjectBranch(rem, dd.project_id, dd.id, cfg, fault)
        c   == Call("UpdateProjectBranch", dd.project_id, dd.id, cfg, r.err, r.branch)
    IN  IF ~v.ok \/ v.v = ""
        THEN [d |-> dd, remote |-> rem, calls |-> <<>>, diags |-> <<>>]
        ELSE [d |-> dd, remote |-> r.remote, calls |-> <<c>>, diags |-> FromErr(r.err)]

resourceBranchUpdate(dd, rem, fault, failAt) ==
    LET v   == GetOk(dd, "name")
        cfg == [Name |-> v.v]
        r   == UpdateProjectBranch(rem, dd.project_id, dd.id, cfg, fault)
        c   == Call("UpdateProjectBranch", dd.project_id, dd.id, cfg, r.err, r.branch)
        m   == updateStateBranch(dd, r.branch, failAt)
    IN  IF ~v.ok \/ v.v = ""
        THEN [d |-> dd, remote |-> rem, calls |-> <<>>, diags |-> <<>>]
        ELSE IF r.err # ""
        THEN [d |-> dd, remote |-> r.remote, calls |-> <<c>>, diags |-> FromErr(r.err)]
        ELSE [d |-> m.d, remote |-> r.remote, calls |-> <<c>>, diags |-> FromErr(m.err)]

\* A Delete that clears the id before it knows the remote delete succeeded.
resourceBranchDelete_clearsFirst(dd, rem, fault, failAt) ==
    LET r == DeleteProjectBranch(rem, dd.project_id, dd.id, fault)
        c == Call("DeleteProjectBranch", dd.project_id, dd.id, NoBody, r.err, ZeroBranch)
        m == updateStateBranch(SetId(dd, ""), ZeroBranch, failAt)
    IN  IF r.err # ""
        THEN [d |-> SetId(dd, ""), remote |-> r.remote, calls |-> <<c>>,
              diags |-> FromErr(r.err)]
        ELSE [d |-> m.d, remote |-> r.remote, calls |-> <<c>>, diags |-> FromErr(m.err)]

\* A Delete that returns success, with no remote call, when there is no id.
resourceBranchDelete_guarded(dd, rem, fault, failAt) ==
    LET r == DeleteProjectBranch(rem, dd.project_id, dd.id, fault)
        c == Call("DeleteProjectBranch", dd.project_id, dd.id, NoBody, r.err, ZeroBranch)
        m == updateStateBranch(SetId(dd, ""), ZeroBranch, failAt)
    IN  IF dd.id = ""
        THEN [d |-> dd, remote |-> rem, calls |-> <<>>, diags |-> <<>>]
        ELSE IF r.err # ""
        THEN [d |-> dd, remote |-> r.remote, calls |-> <<c>>, diags |-> FromErr(r.err)]
        ELSE [d |-> m.d, remote |-> r.remote, calls |-> <<c>>, diags |-> FromErr(m.err)]

resourceBranchDelete(dd, rem, fault, failAt) ==
    LET r == DeleteProjectBranch(rem, dd.project_id, dd.id, fault)
        c == Call("DeleteProjectBranch", dd.project_id, dd.id, NoBody, r.err, ZeroBranch)
        m == updateStateBranch(SetId(dd, ""), ZeroBranch, failAt)
    IN  IF r.err # ""
        THEN [d |-> dd, remote |-> r.remote, calls |-> <<c>>, diags |-> FromErr(r.err)]
        ELSE [d |-> m.d, remote |-> r.remote, calls |-> <<c>>, diags |-> FromErr(m.err)]

\* An Import that hands back the ResourceData whatever the Read returned.
resourceBranchImport_returnsPartial(dd, rem, fault, failAt) ==
    LET h == resourceBranchRead(dd, rem, fault, failAt)
    IN  [d |-> h.d, remote |-> h.remote, calls |-> h.calls,
         list |-> <<h.d>>,
         err |-> IF HasError(h.diags) THEN h.diags[1].Summary ELSE ""]

\* resourceBranchImport: the list of resources and the error it returns.
resourceBranchImport(dd, rem, fault, failAt) ==
    LET h == resourceBranchRead(dd, rem, fault, failAt)
    IN  IF HasError(h.diags)
        THEN [d |-> h.d, remote |-> h.remote, calls |-> h.calls,
              list |-> <<>>, err |-> h.diags[1].Summary]
        ELSE [d |-> h.d, remote |-> h.remote, calls |-> h.calls,
              list |-> <<h.d>>, err |-> ""]

-----------------------------------------------------------------------------
(* The state machine *)

Return(diags, list, err) == [diags |-> diags, list |-> list, err |-> err]

NotFresh == [on |-> FALSE, d |-> ZeroData]

NoInput == [kind |-> "none"]

\* The primary branch as the remote holds it from the start.
InitialRemote ==
    [i \in {PrimaryBranch} |->
        [ID |-> PrimaryBranch, ProjectID |-> "p1", Name |-> "main", ParentID |-> "",
         ParentLsn |-> "", ParentTimestamp |-> ZeroTime,
         LogicalSize |-> 30, PhysicalSize |-> 40,
         CurrentState |-> "ready", PendingState |-> "",
         CreatedAt |-> CreateTime, UpdatedAt |-> UpdateTime]]

Init ==
    /\ d = ZeroData
    /\ remote = InitialRemote
    /\ issued = 0
    /\ owned = ""
    /\ op = "none"
    /\ input = NoInput
    /\ entry = ZeroData
    /\ after = ZeroData
    /\ calls = <<>>
    /\ ret = Return(<<>>, <<>>, "")
    /\ fresh = NotFresh

\* The framework validates the configuration against the schema; a
\* configuration with errors is rejected with them and no handler runs.
Validate ==
    \E cfg \in Configs :
      /\ d.id = ""
      /\ WellFormed(cfg)
      /\ schemaValidate(cfg) # <<>>
      /\ op' = "Create"
      /\ input' = [kind |-> "config", cfg |-> cfg]
      /\ ret' = Return(ConfigDiags(schemaValidate(cfg)), <<>>, "")
      /\ calls' = <<>>
      /\ entry' = d
      /\ after' = d
      /\ fresh' = NotFresh
      /\ UNCHANGED <<d, remote, issued, owned>>

\* For a valid configuration and a resource that has no id yet, the framework
\* hands a new ResourceData to resourceBranchCreate.
Create ==
    \E cfg \in Configs, o \in Outcomes :
      LET h == resourceBranchCreate(NewData(cfg), remote, issued, o.fault, o.failAt)
      IN  /\ d.id = ""
          /\ WellFormed(cfg)
          /\ schemaValidate(cfg) = <<>>
          /\ op' = "Create"
          /\ input' = [kind |-> "config", cfg |-> cfg]
          /\ d' = h.d
          /\ remote' = h.remote
          /\ issued' = h.issued
          /\ owned' = IF h.calls[1].err = "" THEN h.calls[1].branch.ID ELSE owned
          /\ calls' = h.calls
          /\ ret' = Return(h.diags, <<>>, "")
          /\ entry' = NewData(cfg)
          /\ after' = h.d
          /\ fresh' = IF h.diags = <<>> THEN [on |-> TRUE, d |-> h.d] ELSE NotFresh

Read ==
    \E o \in Outcomes :
      LET h == resourceBranchRead(d, remote, o.fault, o.failAt)
      IN  /\ op' = "Read"
          /\ input' = NoInput
          /\ d' = h.d
          /\ calls' = h.calls
          /\ ret' = Return(h.diags, <<>>, "")
          /\ entry' = d
          /\ after' = h.d
          /\ UNCHANGED <<remote, issued, owned, fresh>>

\* The framework merges the planned name into the prior state: a name the
\* configuration leaves out or empty keeps the one of the state.
Update ==
    \E n \in NameInputs, o \in Outcomes :
      LET dd == [d EXCEPT !.name = IF n = "" THEN d.name ELSE n]
          h  == resourceBranchUpdate(dd, remote, o.fault, o.failAt)
      IN  /\ op' = "Update"
          /\ input' = [kind |-> "name", name |-> n]
          /\ d' = h.d
          /\ remote' = h.remote
          /\ calls' = h.calls
          /\ ret' = Return(h.diags, <<>>, "")
          /\ entry' = dd
          /\ after' = h.d
          /\ fresh' = NotFresh
          /\ UNCHANGED <<issued, owned>>

Delete ==
    \E o \in Outcomes :
      LET h == resourceBranchDelete(d, remote, o.fault, o.failAt)
      IN  /\ op' = "Delete"
          /\ input' = NoInput
          /\ d' = h.d
          /\ remote' = h.remote
          /\ owned' = IF h.calls # <<>> /\ h.calls[1].err = "" THEN "" ELSE owned
          /\ calls' = h.calls
          /\ ret' = Return(h.diags, <<>>, "")
          /\ entry' = d
          /\ after' = h.d
          /\ fresh' = NotFresh
          /\ UNCHANGED issued

\* The ids an import may name: a branch that exists, or one that does not.
ImportIds(rem) == DOMAIN rem \cup {"br-404"}

\* The framework hands resourceBranchImport, for a resource it does not track
\* yet, a new ResourceData that holds the id alone, and keeps the resources the
\* importer returns.
Import ==
    \E id \in ImportIds(remote), o \in Outcomes :
      LET dd == SetId(ZeroData, id)
          h  == resourceBranchImport(dd, remote, o.fault, o.failAt)
      IN  /\ d.id = ""
          /\ op' = "Import"
          /\ input' = [kind |-> "id", id |-> id]
          /\ d' = IF h.list = <<>> THEN d ELSE h.list[1]
          /\ owned' = IF h.list = <<>> THEN owned ELSE id
          /\ calls' = h.calls
          /\ ret' = Return(<<>>, h.list, h.err)
          /\ entry' = dd
          /\ after' = h.d
          /\ fresh' = NotFresh
          /\ UNCHANGED <<remote, issued>>

\* The remote finishes provisioning a branch: its states, sizes and update
\* time change without any call of the provider.  No handler runs in this
\* step: it made no call, returned nothing and left the ResourceData alone.
RemoteSettle ==
    \E id \in DOMAIN remote :
      /\ remote[id].CurrentState = "init"
      /\ remote' = [remote EXCEPT ![id] =
                       [@ EXCEPT !.CurrentState = "ready", !.PendingState = "",
                                 !.LogicalSize = 30, !.PhysicalSize = 40,
                                 !.UpdatedAt = UpdateTime]]
      /\ op' = "RemoteSettle"
      /\ input' = NoInput
      /\ entry' = d
      /\ after' = d
      /\ calls' = <<>>
      /\ ret' = Return(<<>>, <<>>, "")
      /\ fresh' = NotFresh
      /\ UNCHANGED <<d, issued, owned>>

Next == Validate \/ Create \/ Read \/ Update \/ Delete \/ Import \/ RemoteSettle

Spec == Init /\ [][Next]_vars

-----------------------------------------------------------------------------
(* The functions on their own: intValidationNotNegative over a range of      *)
(* values and updateStateBranch with a failure of each of its d.Set calls.   *)

\* The values handed to the validation lie within MaxDays days of 0.
MaxDays == 2

SecondsOfDay == {0, 1, 86399}

\* The keys the validation is called for.
KeyNames == {"parent_timestamp", "logical_size"}

\* Configurations that give parent_timestamp a value, of either sign.
ValidationConfigs ==
    {[project_id |-> p, name |-> n, parent_id |-> "", parent_lsn |-> l,
      parent_timestamp |-> Secs(a, b),
      given |-> IF l = "" THEN {"parent_timestamp"}
                ELSE {"parent_lsn", "parent_timestamp"}] :
        p \in ProjectIds, n \in NameInputs, l \in LsnInputs,
        a \in -MaxDays .. MaxDays, b \in SecondsOfDay}

\* A branch forked at a point in time, every field of which is set.
ForkedBranch ==
    [ID |-> "br-7", ProjectID |-> "p1", Name |-> "fork", ParentID |-> PrimaryBranch,
     ParentLsn |-> "0/1708A40", ParentTimestamp |-> TimeUnix(Secs(19675, 80000)),
     LogicalSize |-> 30, PhysicalSize |-> 40,
     CurrentState |-> "ready", PendingState |-> "init",
     CreatedAt |-> CreateTime, UpdatedAt |-> UpdateTime]

\* The entities the mapper is handed: neon.Branch{}, the primary branch and a
\* forked one.
MapperBranches == {ZeroBranch, InitialRemote[PrimaryBranch], ForkedBranch}

\* The ResourceData the mapper is handed: a new one, one that holds a
\* configuration, and one that a mapping has filled.
MapperData ==
    {ZeroData,
     SetId([ZeroData EXCEPT !.project_id = "p1", !.name = "dev"], "br-1"),
     SetId(updateStateBranch([ZeroData EXCEPT !.project_id = "p1"],
                             InitialRemote[PrimaryBranch], NoFailure).d,
           PrimaryBranch)}

FunctionInputs ==
    {[kind |-> "validate", cfg |-> c, s |-> s] :
        c \in ValidationConfigs, s \in KeyNames}
    \cup {[kind |-> "map", d |-> dd, v |-> v, k |-> k] :
        dd \in MapperData, v \in MapperBranches, k \in 0 .. Len(ComputedFields)}

InitFunctions ==
    /\ input \in FunctionInputs
    /\ d = ZeroData
    /\ remote = InitialRemote
    /\ issued = 0
    /\ owned = ""
    /\ op = "none"
    /\ entry = ZeroData
    /\ after = ZeroData
    /\ calls = <<>>
    /\ ret = Return(<<>>, <<>>, "")
    /\ fresh = NotFresh

\* The ValidateFunc is called with the value and the key, the whole
\* configuration goes through the schema's validation.
ValidateField ==
    /\ op = "none"
    /\ input.kind = "validate"
    /\ op' = "intValidationNotNegative"
    /\ ret' = [field  |-> intValidationNotNegative(input.cfg.parent_timestamp, input.s),
               config |-> schemaValidate(input.cfg)]
    /\ UNCHANGED <<d, remote, issued, owned, input, entry, after, calls, fresh>>

\* updateStateBranch(d, v) where the k-th d.Set fails, or none for k = 0.
ApplyMapper ==
    /\ op = "none"
    /\ input.kind = "map"
    /\ op' = "updateStateBranch"
    /\ entry' = input.d
    /\ after' = updateStateBranch(input.d, input.v, input.k).d
    /\ ret' = Return(FromErr(updateStateBranch(input.d, input.v, input.k).err),
                     <<>>, updateStateBranch(input.d, input.v, input.k).err)
    /\ UNCHANGED <<d, remote, issued, owned, input, calls, fresh>>

NextFunctions == ValidateField \/ ApplyMapper

SpecFunctions == InitFunctions /\ [][NextFunctions]_vars

-----------------------------------------------------------------------------
(* The state machine with a remote that loses branches: somebody deletes a   *)
(* branch without the provider, while the resource still holds its id.       *)

\* A branch other than the primary one is deleted out of band.  No handler
\* runs in this step.
RemoteRemove ==
    \E id \in DOMAIN remote \ {PrimaryBranch} :
      /\ remote' = [i \in DOMAIN remote \ {id} |-> remote[i]]
      /\ op' = "RemoteRemove"
      /\ input' = NoInput
      /\ entry' = d
      /\ after' = d
      /\ calls' = <<>>
      /\ ret' = Return(<<>>, <<>>, "")
      /\ fresh' = NotFresh
      /\ UNCHANGED <<d, issued, owned>>

NextDrift ==
    Validate \/ Create \/ Read \/ Update \/ Delete \/ Import \/ RemoteSettle
    \/ RemoteRemove

SpecDrift == Init /\ [][NextDrift]_vars

-----------------------------------------------------------------------------
(* Properties *)

\* The last step was handler h and its remote call came back without error.
RemoteSucceeded(h) == op = h /\ Len(calls) = 1 /\ calls[1].err = ""

\* The last step was handler h and its remote call came back with an error.
RemoteFailed(h) == op = h /\ Len(calls) = 1 /\ calls[1].err # ""

BothGiven(cfg) == {"parent_lsn", "parent_timestamp"} \subseteq cfg.given

ConflictMessages ==
    {"\"parent_lsn\": conflicts with parent_timestamp",
     "\"parent_timestamp\": conflicts with parent_lsn"}

\* C1: a Create whose configuration gives both parent_lsn and parent_timestamp
\* is rejected with a conflict error, makes no remote call, provisions no
\* remote branch and leaves the resource as it was.
C1_ConflictRejectedBeforeRemote ==
    [][(op' = "Create" /\ BothGiven(input'.cfg)) =>
         /\ HasError(ret'.diags)
         /\ \E i \in 1 .. Len(ret'.diags) : ret'.diags[i].Summary \in ConflictMessages
         /\ calls' = <<>>
         /\ remote' = remote
         /\ issued' = issued
         /\ d' = d]_vars

C1_Witness ==
    /\ op = "Create"
    /\ BothGiven(input.cfg)
    /\ ~SecsNegative(input.cfg.parent_timestamp)
    /\ HasError(ret.diags)
    /\ calls = <<>>

\* C2 (as claimed): after a Delete whose remote delete call succeeded and that
\* returned no error, the id is "" and every computed field holds the zero
\* value of its type.
C2_DeleteZeroesEveryField ==
    (RemoteSucceeded("Delete") /\ ret.diags = <<>>) =>
        /\ d.id = ""
        /\ \A i \in 1 .. Len(ComputedFields) :
              d[ComputedFields[i]] = ZeroData[ComputedFields[i]]

\* C3 (as claimed): after Create, Read or Update applied the State Mapper to
\* the entity the remote returned and the mapper reported no failure, every
\* local attribute equals its own remote counterpart.
C3_MapperOneToOne ==
    (\E h \in {"Create", "Read", "Update"} : RemoteSucceeded(h) /\ ret.diags = <<>>) =>
        LET b == calls[1].branch
        IN  /\ d.name = b.Name
            /\ d.parent_id = b.ParentID
            /\ d.parent_lsn = b.ParentLsn
            /\ d.parent_timestamp = Unix(b.ParentTimestamp)
            /\ d.logical_size = b.LogicalSize
            /\ d.physical_size_size = b.PhysicalSize
            /\ d.current_state = b.CurrentState
            /\ d.pending_state = b.PendingState
            /\ d.created_at = FormatRFC3339(b.CreatedAt)
            /\ d.updated_at = FormatRFC3339(b.UpdatedAt)

\* The branch created or imported for the resource is live on the remote.
HasLiveCounterpart == owned # "" /\ owned \in DOMAIN remote

\* C4: in every reachable state the local id is "" if and only if the resource
\* has no live remote counterpart.
C4_IdEmptyIffNoCounterpart == (d.id = "") <=> ~HasLiveCounterpart

\* A Create whose remote call succeeded and whose mapper then failed.
C4_Witness ==
    /\ RemoteSucceeded("Create")
    /\ HasError(ret.diags)
    /\ d.id # ""
    /\ HasLiveCounterpart

\* C5: an Update that finds name empty returns no diagnostic, makes no remote
\* call and leaves the id and every attribute as they were handed to it.
C5_UpdateEmptyNameIsNoOp ==
    (op = "Update" /\ entry.name = "") =>
        /\ ret.diags = <<>>
        /\ calls = <<>>
        /\ after = entry
        /\ d = entry

C5_Witness ==
    /\ op = "Update"
    /\ entry.name = ""
    /\ entry.id # ""
    /\ calls = <<>>

\* C6: a Read that succeeds while the remote entity is as Create's response
\* showed it leaves the local state equal to the one Create left, under the
\* id the remote assigned.
C6_ReadAfterCreateSameState ==
    (op = "Read" /\ fresh.on /\ ret.diags = <<>>) =>
        /\ d = fresh.d
        /\ d.id = owned
        /\ d.id # ""

C6_Witness ==
    /\ op = "Read"
    /\ fresh.on
    /\ ret.diags = <<>>
    /\ RemoteSucceeded("Read")
    /\ d.current_state # ""

\* C7 (as claimed): a handler leaves the id differing from the one it was
\* handed only when it is a Create that succeeded (the id is then the one the
\* remote assigned) or a Delete that succeeded (the id is then "").
C7_IdChangesOnlyAtSuccess ==
    (after.id # entry.id) =>
        \/ RemoteSucceeded("Create") /\ ret.diags = <<>> /\ after.id = calls[1].branch.ID
        \/ RemoteSucceeded("Delete") /\ ret.diags = <<>> /\ after.id = ""

\* C7 (amended): a handler leaves the id differing from the one it was handed
\* only when it is a Create whose remote create call succeeded (the id is then
\* the one the remote assigned) or a Delete whose remote delete call succeeded
\* (the id is then ""), whether or not the State Mapper fails afterwards.
C7_IdChangesOnlyAtRemoteSuccess ==
    (after.id # entry.id) =>
        \/ RemoteSucceeded("Create") /\ after.id = calls[1].branch.ID
        \/ RemoteSucceeded("Delete") /\ after.id = ""

\* A Create that returns an error and has set the id.
C7_Witness ==
    /\ RemoteSucceeded("Create")
    /\ HasError(ret.diags)
    /\ entry.id = ""
    /\ after.id = calls[1].branch.ID
    /\ after.id # ""

\* C8: when the remote create call fails, Create has made that one call, leaves
\* the id empty and every attribute as handed to it, and returns the remote's
\* error as its only diagnostic.
C8_CreateFailureLeavesAbsent ==
    (op = "Create" /\ calls # <<>> /\ calls[1].err # "") =>
        /\ Len(calls) = 1
        /\ after = entry
        /\ d = entry
        /\ d.id = ""
        /\ ret.diags = <<[Severity |-> "Error", Summary |-> calls[1].err]>>

C8_Witness ==
    /\ RemoteFailed("Create")
    /\ d.id = ""
    /\ HasError(ret.diags)

\* C9: when the remote delete call fails, Delete leaves the id and every
\* attribute as handed to it, a branch that was live is still live, and the
\* remote's error is returned.
C9_DeleteFailureLeavesPresent ==
    (op = "Delete" /\ calls # <<>> /\ calls[1].err # "") =>
        /\ after = entry
        /\ d = entry
        /\ (owned # "" => HasLiveCounterpart /\ d.id = owned)
        /\ ret.diags = <<[Severity |-> "Error", Summary |-> calls[1].err]>>

C9_Witness ==
    /\ RemoteFailed("Delete")
    /\ d.id # ""
    /\ HasLiveCounterpart
    /\ HasError(ret.diags)

\* C10: a Delete handed a resource with no id still makes the remote delete
\* call, returns the remote's error unchanged and leaves the resource without
\* id.
C10_DeleteOnAbsentSurfacesError ==
    (op = "Delete" /\ entry.id = "") =>
        /\ Len(calls) = 1
        /\ calls[1].method = "DeleteProjectBranch"
        /\ calls[1].branch_id = ""
        /\ calls[1].err \in {ErrNotFound, ErrUnavailable}
        /\ ret.diags = <<[Severity |-> "Error", Summary |-> calls[1].err]>>
        /\ after = entry
        /\ d.id = ""

\* A second Delete, right after one that succeeded.
C10_Witness ==
    /\ op = "Delete"
    /\ entry.id = ""
    /\ issued > 0
    /\ calls # <<>>
    /\ calls[1].err = ErrNotFound
    /\ ret.diags = <<[Severity |-> "Error", Summary |-> ErrNotFound]>>

\* The ids the remote has handed out so far.
IssuedIds(n) == {BranchId(i) : i \in 1..n}

\* C11: every Create whose remote create call succeeds adds exactly one branch
\* to the remote, under an id that no branch has and that was never handed out
\* before, whatever the configuration (the one of an earlier Create included),
\* and leaves that id as the local id.
C11_CreateProvisionsNewIdentity ==
    [][(op' = "Create" /\ calls' # <<>> /\ calls'[1].err = "") =>
          /\ Len(calls') = 1
          /\ calls'[1].method = "CreateProjectBranch"
          /\ calls'[1].branch.ID \notin DOMAIN remote
          /\ calls'[1].branch.ID \notin IssuedIds(issued)
          /\ DOMAIN remote' = DOMAIN remote \cup {calls'[1].branch.ID}
          /\ \A i \in DOMAIN remote : remote'[i] = remote[i]
          /\ d'.id = calls'[1].branch.ID
          /\ after'.id = calls'[1].branch.ID]_vars

\* A second successful Create, of the configuration the first one had: the
\* local id is the second id the remote handed out.
C11_Witness ==
    /\ RemoteSucceeded("Create")
    /\ issued = 2
    /\ input.cfg.given = {}
    /\ input.cfg.name = "dev"
    /\ d.id = BranchId(2)
    /\ d.id # BranchId(1)
    /\ BranchId(1) \notin DOMAIN remote

\* C12 (as claimed): in every reachable local state the local
\* parent_timestamp, when set, is greater than or equal to 0.
C12_ParentTimestampNotNegative ==
    d.parent_timestamp # SecsZero => ~SecsNegative(d.parent_timestamp)

\* C13 (as claimed): in every reachable local state, once the State Mapper has
\* written the parent_lsn and the parent_timestamp of a remote entity, the
\* local parent_lsn and parent_timestamp are not both set.
C13_LsnAndTimestampNotBothSet ==
    (op \in {"Create", "Read", "Update", "Import"} /\ Len(calls) = 1
        /\ calls[1].err = "" /\ ret.diags = <<>> /\ ret.err = "") =>
            ~(d.parent_lsn # "" /\ d.parent_timestamp # SecsZero)

\* C14: the validation of parent_timestamp returns an error that names the key
\* exactly when the value is below 0, and neither error nor warning for a value
\* of 0 or more; the schema's validation of a whole configuration reports that
\* error for parent_timestamp exactly then, whatever the name and the
\* parent_lsn of the configuration.
C14_ValidationRejectsExactlyNegative ==
    (op = "intValidationNotNegative") =>
        LET v   == input.cfg.parent_timestamp
            neg == v.d * 86400 + v.s < 0
        IN  /\ ret.field.warn = <<>>
            /\ ret.field.errs = IF neg THEN <<input.s \o " must be not negative">>
                                ELSE <<>>
            /\ neg <=> \E i \in 1 .. Len(ret.config) :
                          ret.config[i] = "parent_timestamp must be not negative"

\* The value 0 went through the validation, in a configuration that gives a
\* parent_lsn too, and got no error of the validation.
C14_Witness ==
    /\ op = "intValidationNotNegative"
    /\ input.cfg.parent_timestamp = SecsZero
    /\ input.cfg.parent_lsn # ""
    /\ input.s = "parent_timestamp"
    /\ ret.field.errs = <<>>
    /\ ret.config # <<>>

\* C19: the State Mapper assigns the attributes in the order of ComputedFields;
\* when its k-th assignment fails it returns the error of that assignment, the
\* attributes before the k-th hold the entity's values and those after the
\* k-th hold what they held before the call; when none fails it returns no
\* error and every attribute holds the entity's value.
C19_MapperFailFastNoRollback ==
    (op = "updateStateBranch") =>
        LET k == input.k
            n == Len(ComputedFields)
        IN  /\ k = NoFailure =>
                  /\ ret.err = ""
                  /\ \A i \in 1 .. n :
                        after[ComputedFields[i]] = MapperValue(input.v, ComputedFields[i])
            /\ k # NoFailure =>
                  /\ ret.err = SetError(ComputedFields[k])
                  /\ ret.diags = <<[Severity |-> "Error",
                                    Summary |-> SetError(ComputedFields[k])]>>
                  /\ \A i \in 1 .. k - 1 :
                        after[ComputedFields[i]] = MapperValue(input.v, ComputedFields[i])
                  /\ \A i \in k + 1 .. n :
                        after[ComputedFields[i]] = entry[ComputedFields[i]]

\* The seventh assignment failed on a new ResourceData handed the forked
\* branch: the six attributes before it are written, the three after it are
\* not, though the entity's values differ from what they hold.
C19_Witness ==
    /\ op = "updateStateBranch"
    /\ input.k = 7
    /\ input.v = ForkedBranch
    /\ entry = ZeroData
    /\ ret.err = SetError("current_state")
    /\ after.physical_size_size = 40
    /\ after.name = "fork"
    /\ after.pending_state = ""
    /\ after.created_at = ""
    /\ MapperValue(input.v, "pending_state") # ""

\* C15: the payload of Create's remote call carries a point in time exactly
\* when the configuration gives a parent_timestamp above 0, and it is then that
\* number of seconds as a time; a parent_timestamp of 0 gives the payload of a
\* configuration that leaves parent_timestamp out.
C15_PayloadTimestampIffPositive ==
    (op = "Create" /\ calls # <<>>) =>
        LET cfg == input.cfg
            ts  == cfg.parent_timestamp
            pos == "parent_timestamp" \in cfg.given /\ ts.d * 86400 + ts.s > 0
            req == calls[1].body
        IN  /\ req.ParentTimestamp.set <=> pos
            /\ pos => req.ParentTimestamp.t = [d |-> ts.d, s |-> ts.s, ns |-> 0]
            /\ ~pos => req = [ParentID |-> cfg.parent_id, Name |-> cfg.name,
                              ParentLsn |-> cfg.parent_lsn,
                              ParentTimestamp |-> NilTime]

\* A Create of a configuration that gives parent_timestamp = 0 has sent a
\* payload without point in time.
C15_Witness ==
    /\ RemoteSucceeded("Create")
    /\ "parent_timestamp" \in input.cfg.given
    /\ input.cfg.parent_timestamp = SecsZero
    /\ ~calls[1].body.ParentTimestamp.set
    /\ calls[1].branch.ParentTimestamp = ZeroTime

\* C16: an Update handed a non-empty name makes exactly one rename call, for
\* the project_id and the id it was handed, with a payload that holds the name
\* and nothing else; when the call and the mapping succeed the local attributes
\* are the mapping of the entity the call returned, the id kept; when the call
\* fails the ResourceData is as handed and the remote's error is returned.
C16_UpdateRenamesOnce ==
    (op = "Update" /\ entry.name # "") =>
        /\ Len(calls) = 1
        /\ calls[1].method = "UpdateProjectBranch"
        /\ calls[1].project_id = entry.project_id
        /\ calls[1].branch_id = entry.id
        /\ calls[1].body = [Name |-> entry.name]
        /\ (calls[1].err = "" /\ ret.diags = <<>>) =>
              /\ \A i \in 1 .. Len(ComputedFields) :
                    after[ComputedFields[i]] =
                        MapperValue(calls[1].branch, ComputedFields[i])
              /\ after.id = entry.id
              /\ after.project_id = entry.project_id
              /\ d = after
        /\ calls[1].err # "" =>
              /\ after = entry
              /\ ret.diags = <<[Severity |-> "Error", Summary |-> calls[1].err]>>

\* A rename of a branch that settled since it was created: the mapping brings
\* the new name and the new state.
C16_Witness ==
    /\ RemoteSucceeded("Update")
    /\ ret.diags = <<>>
    /\ input.name = "dev"
    /\ entry.current_state = "init"
    /\ d.name = "dev"
    /\ d.current_state = "ready"
    /\ remote[d.id].Name = "dev"

\* C18: an Import makes exactly one remote get, for the id it was given.  When
\* the get and the mapping succeed it returns no error and exactly one
\* resource, which has that id and the mapping of the entity the get returned.
\* When the get fails it returns no resource and the remote's error text; when
\* an assignment of the mapping fails it returns no resource and the text of
\* that assignment's error; in both cases the resource stays without id: the
\* ResourceData the handler held, with the id and what it wrote before it
\* failed, is not handed back.
C18_ImportOneReadAllOrNothing ==
    (op = "Import") =>
        /\ Len(calls) = 1
        /\ calls[1].method = "GetProjectBranch"
        /\ calls[1].branch_id = input.id
        /\ entry.id = input.id
        /\ ret.err = "" <=> Len(ret.list) = 1
        /\ ret.err # "" <=> ret.list = <<>>
        /\ calls[1].err # "" => ret.err = calls[1].err /\ after = entry
        /\ (calls[1].err = "" /\ ret.err # "") =>
              \E k \in 1 .. Len(ComputedFields) :
                  /\ ret.err = SetError(ComputedFields[k])
                  /\ after = updateStateBranch(entry, calls[1].branch, k).d
        /\ ret.err # "" => d.id = "" /\ after.id = input.id /\ d # after
        /\ ret.err = "" =>
              /\ calls[1].err = ""
              /\ ret.list[1].id = input.id
              /\ \A i \in 1 .. Len(ComputedFields) :
                    ret.list[1][ComputedFields[i]] =
                        MapperValue(calls[1].branch, ComputedFields[i])
              /\ d = ret.list[1]

\* An Import of the primary branch whose mapping failed at the fourth
\* assignment: the handler had written the name, nothing is handed back.
C18_Witness ==
    /\ op = "Import"
    /\ input.id = PrimaryBranch
    /\ calls[1].err = ""
    /\ ret.err = SetError("parent_timestamp")
    /\ ret.list = <<>>
    /\ after.name = "main"
    /\ d = ZeroData

\* C20: whenever the remote create call succeeds, the id Create leaves is the
\* id of the branch that call returned and the remote now holds, also when an
\* assignment of the mapping fails and Create returns an error.
C20_IdRecordedBeforeMapping ==
    (op = "Create" /\ calls # <<>> /\ calls[1].err = "") =>
        /\ calls[1].branch.ID # ""
        /\ calls[1].branch.ID \in DOMAIN remote
        /\ after.id = calls[1].branch.ID
        /\ d.id = calls[1].branch.ID
        /\ HasError(ret.diags) =>
              \E k \in 1 .. Len(ComputedFields) :
                  /\ ret.diags = FromErr(SetError(ComputedFields[k]))
                  /\ after = updateStateBranch(SetId(entry, calls[1].branch.ID),
                                               calls[1].branch, k).d

\* The very first assignment of the mapping failed: Create returns its error,
\* no attribute is written, the id is the new branch's.
C20_Witness ==
    /\ RemoteSucceeded("Create")
    /\ ret.diags = FromErr(SetError("name"))
    /\ d.current_state = ""
    /\ d.created_at = ""
    /\ d.id = calls[1].branch.ID
    /\ d.id \in DOMAIN remote
    /\ d.id # PrimaryBranch

\* C17: when the remote get call fails, be it that the remote is unavailable
\* or that it does not find the branch, Read has made that one call, returns
\* the remote's error as its only diagnostic and leaves the id and every
\* attribute as handed to it: a resource that had an id keeps it.
C17_ReadFailureLeavesState ==
    (op = "Read" /\ calls # <<>> /\ calls[1].err # "") =>
        /\ Len(calls) = 1
        /\ calls[1].method = "GetProjectBranch"
        /\ calls[1].err \in {ErrNotFound, ErrUnavailable}
        /\ ret.diags = <<[Severity |-> "Error", Summary |-> calls[1].err]>>
        /\ after = entry
        /\ d = entry
        /\ d.id = entry.id

\* A Read of a resource whose branch was deleted out of band: the remote does
\* not find it, the resource keeps its id and its attributes.
C17_Witness ==
    /\ RemoteFailed("Read")
    /\ calls[1].err = ErrNotFound
    /\ d.id # ""
    /\ d.id = owned
    /\ d.id \notin DOMAIN remote
    /\ d.current_state # ""
    /\ HasError(ret.diags)

====
